---- MODULE Spec2Model ----
(***************************************************************************)
(* Ethereum beacon light client pallet                                     *)
(* (parachain/pallets/ethereum-beacon-light-client/src/lib.rs).            *)
(*                                                                         *)
(* The five storage items are the state; the four extrinsics are the       *)
(* actions.  Hashes are symbolic: a 32-byte value is a sequence of         *)
(* integers, <<n>> for a chunk and <<-1>> \o a \o b for sha2_256(a ++ b),  *)
(* so that two digests are equal only when they were built the same way.   *)
(***************************************************************************)
EXTENDS Integers, Sequences, FiniteSets, TLC

VARIABLES
    FinalizedHeaders,        \* StorageMap body_root -> BeaconBlockHeader
    FinalizedHeadersBySlot,  \* StorageMap slot -> body_root
    UnverifiedHeaders,       \* StorageMap slot -> LightClientUnverifiedHeader
    SyncCommittees,          \* StorageMap period -> SyncCommittee (ValueQuery)
    ChainGenesis,            \* StorageValue Genesis (ValueQuery): <<>> or <<g>>
    committeeProof,          \* history: period -> what was checked when the committee was stored
    stagedProof,             \* history: slot -> what was checked when the entry was staged
    headerProof,             \* history: body_root -> what was checked when the header was stored
    synced,                  \* history: an initial_sync has been committed
    last,                    \* the last dispatched call and its outcome
    steps                    \* number of calls dispatched so far

stores == <<FinalizedHeaders, FinalizedHeadersBySlot, UnverifiedHeaders,
            SyncCommittees, ChainGenesis>>

history == <<committeeProof, stagedProof, headerProof, synced>>

vars == <<FinalizedHeaders, FinalizedHeadersBySlot, UnverifiedHeaders,
          SyncCommittees, ChainGenesis, committeeProof, stagedProof,
          headerProof, synced, last, steps>>

----------------------------------------------------------------------------
(* Bounds of the model *)

\* Calls dispatched in one behaviour.
MaxSteps == 3

\* Members of a sync committee (SYNC_COMMITTEE_SIZE, 512 on the beacon chain).
CommitteeSize == 2

----------------------------------------------------------------------------
(* Constants of lib.rs *)

SLOTS_PER_EPOCH == 32

EPOCHS_PER_SYNC_COMMITTEE_PERIOD == 256

CURRENT_SYNC_COMMITTEE_INDEX == 22

CURRENT_SYNC_COMMITTEE_DEPTH == 5

NEXT_SYNC_COMMITTEE_DEPTH == 5

NEXT_SYNC_COMMITTEE_INDEX == 23

FINALIZED_ROOT_DEPTH == 6

FINALIZED_ROOT_INDEX == 41

MIN_SYNC_COMMITTEE_PARTICIPANTS == 1

GENESIS_FORK_VERSION == <<30, 30, 30, 30>>

DOMAIN_SYNC_COMMITTEE == <<7, 0, 0, 0>>

----------------------------------------------------------------------------
(* Values *)

\* H256::zero(), the Default of Root.
ZeroRoot == <<0>>

\* PublicKey([0u8; 48]), the Default of PublicKey.
ZeroKey == 0

\* SyncCommittee { pubkeys: vec![], aggregate_pubkey: PublicKey([0; 48]) },
\* the Default of SyncCommittee, which a ValueQuery get returns for a
\* missing key.
DefaultSyncCommittee == [pubkeys |-> <<>>, aggregate_pubkey |-> ZeroKey]

\* Genesis::default()
DefaultGenesis == [validators_root |-> ZeroRoot]

RECURSIVE Pow2(_)
Pow2(n) == IF n = 0 THEN 1 ELSE 2 * Pow2(n - 1)

\* sha2_256 of the 64 bytes left ++ right.
sha2_256(left, right) == <<-1>> \o left \o right

\* A u64 or a byte array of at most 32 bytes as one 32-byte chunk
\* (little-endian, right-padded).
Chunk(n) == <<n>>

Bytes4Value(b) == b[1] + 256 * b[2] + 65536 * b[3] + 16777216 * b[4]

----------------------------------------------------------------------------
(* Storage maps: a map is a function whose domain is the set of stored keys *)

EmptyMap == <<>>

StorageInsert(map, k, v) ==
    [x \in (DOMAIN map) \cup {k} |-> IF x = k THEN v ELSE map[x]]

\* A remove that leaves the entry where it is.
StorageRemove_keeps(map, k) == map

StorageRemove(map, k) == [x \in (DOMAIN map) \ {k} |-> map[x]]

StorageContains(map, k) == k \in DOMAIN map

\* <SyncCommittees<T>>::get(period), ValueQuery
SyncCommittees_get(map, period) ==
    IF period \in DOMAIN map THEN map[period] ELSE DefaultSyncCommittee

\* <ChainGenesis<T>>::get(), ValueQuery
ChainGenesis_get(value) ==
    IF value = <<>> THEN DefaultGenesis ELSE value[1]

----------------------------------------------------------------------------
(* SSZ hash-tree-root (mod merklization) *)

IsPow2(n) == \E k \in 0..16 : n = Pow2(k)

RECURSIVE PadToPow2(_)
PadToPow2(chunks) ==
    IF Len(chunks) > 0 /\ IsPow2(Len(chunks)) THEN chunks
    ELSE PadToPow2(Append(chunks, ZeroRoot))

\* Root of the balanced binary tree over a power-of-two number of chunks.
RECURSIVE MerkleizeChunks(_)
MerkleizeChunks(chunks) ==
    IF Len(chunks) = 1 THEN chunks[1]
    ELSE LET half == Len(chunks) \div 2
         IN  sha2_256(MerkleizeChunks(SubSeq(chunks, 1, half)),
                      MerkleizeChunks(SubSeq(chunks, half + 1, Len(chunks))))

Merkleize(chunks) == MerkleizeChunks(PadToPow2(chunks))

\* bytes[48]: two chunks, the second padded.
hash_tree_root_public_key(pubkey) == sha2_256(Chunk(pubkey), ZeroRoot)

hash_tree_root_beacon_header(header) ==
    [ok |-> TRUE,
     root |-> Merkleize(<<Chunk(header.slot), Chunk(header.proposer_index),
                          header.parent_root, header.state_root,
                          header.body_root>>)]

\* Vector[PublicKey, SYNC_COMMITTEE_SIZE]: a sequence of any other length
\* is not a value of the type and the root computation fails.
hash_tree_root_sync_committee(sync_committee) ==
    IF Len(sync_committee.pubkeys) # CommitteeSize
    THEN [ok |-> FALSE, root |-> ZeroRoot]
    ELSE [ok |-> TRUE,
          root |-> sha2_256(
              Merkleize([i \in 1..Len(sync_committee.pubkeys) |->
                  hash_tree_root_public_key(sync_committee.pubkeys[i])]),
              hash_tree_root_public_key(sync_committee.aggregate_pubkey))]

hash_tree_root_fork_data(fork_data) ==
    [ok |-> TRUE,
     root |-> sha2_256(Chunk(Bytes4Value(fork_data.current_version)),
                       fork_data.genesis_validators_root)]

hash_tree_root_signing_data(signing_data) ==
    [ok |-> TRUE,
     root |-> sha2_256(signing_data.object_root, signing_data.domain)]

----------------------------------------------------------------------------
(* Merkle proof engine *)

\* branch[i as usize] with i >= branch.len() is an index out of bounds.
merkle_branch_panics(branch, depth) == Len(branch) < depth

\* The value after the loop body has run for i in from..depth-1.
RECURSIVE merkle_fold(_, _, _, _, _)
merkle_fold(value, branch, depth, index, i) ==
    IF i >= depth THEN value
    ELSE IF ((index \div Pow2(i)) % 2) = 0
         THEN merkle_fold(sha2_256(value, branch[i + 1]), branch, depth, index, i + 1)
         ELSE merkle_fold(sha2_256(branch[i + 1], value), branch, depth, index, i + 1)

is_valid_merkle_branch_from_second_level(leaf, branch, depth, index, root) ==
    merkle_fold(leaf, branch, depth, index, IF depth > 0 THEN 1 ELSE 0) = root

\* Defined when merkle_branch_panics(branch, depth) is false.
is_valid_merkle_branch(leaf, branch, depth, index, root) ==
    merkle_fold(leaf, branch, depth, index, 0) = root

----------------------------------------------------------------------------
(* Helpers of the signature verifier *)

RECURSIVE binary_digits(_)
binary_digits(remaining) ==
    IF remaining > 0
    THEN <<remaining % 2>> \o binary_digits(remaining \div 2)
    ELSE <<>>

pad_to_8_nothing(tmp) == tmp

pad_to_8(tmp) ==
    IF Len(tmp) < 8 THEN tmp \o [i \in 1..(8 - Len(tmp)) |-> 0] ELSE tmp

RECURSIVE convert_to_binary(_)
convert_to_binary(input) ==
    IF input = <<>> THEN <<>>
    ELSE pad_to_8(binary_digits(Head(input))) \o convert_to_binary(Tail(input))

get_sync_committee_sum_of_flags(sync_committee_bits) == Len(sync_committee_bits)

RECURSIVE get_sync_committee_sum(_)
get_sync_committee_sum(sync_committee_bits) ==
    IF sync_committee_bits = <<>> THEN 0
    ELSE Head(sync_committee_bits) + get_sync_committee_sum(Tail(sync_committee_bits))

compute_current_sync_period_in_epochs(slot) == slot \div SLOTS_PER_EPOCH

compute_current_sync_period(slot) ==
    (slot \div SLOTS_PER_EPOCH) \div EPOCHS_PER_SYNC_COMMITTEE_PERIOD

compute_fork_data_root(current_version, genesis_validators_root) ==
    LET r == hash_tree_root_fork_data(
                 [current_version |-> current_version,
                  genesis_validators_root |-> genesis_validators_root])
    IN  IF r.ok THEN [result |-> "Ok", root |-> r.root]
        ELSE [result |-> "Other", root |-> ZeroRoot]

\* A compute_domain that takes the fork data root of the genesis fork
\* version whatever fork version it is given.
compute_domain_of_genesis_fork(domain_type, fork_version, genesis_validators_root) ==
    LET fork_data_root ==
            compute_fork_data_root(GENESIS_FORK_VERSION, genesis_validators_root)
    IN  IF fork_data_root.result # "Ok"
        THEN [result |-> fork_data_root.result, domain |-> ZeroRoot]
        ELSE IF Len(domain_type) # 4
        THEN [result |-> "Panic", domain |-> ZeroRoot]
        ELSE [result |-> "Ok",
              domain |-> <<-2>> \o domain_type \o fork_data_root.root]

\* domain[0..4] = domain_type, domain[4..32] = fork_data_root[..28]; a
\* domain_type that is not 4 bytes long makes copy_from_slice panic.
compute_domain(domain_type, fork_version, genesis_validators_root) ==
    LET unwrapped_fork_version ==
            IF fork_version = <<>> THEN GENESIS_FORK_VERSION ELSE fork_version[1]
        fork_data_root ==
            compute_fork_data_root(unwrapped_fork_version, genesis_validators_root)
    IN  IF fork_data_root.result # "Ok"
        THEN [result |-> fork_data_root.result, domain |-> ZeroRoot]
        ELSE IF Len(domain_type) # 4
        THEN [result |-> "Panic", domain |-> ZeroRoot]
        ELSE [result |-> "Ok",
              domain |-> <<-2>> \o domain_type \o fork_data_root.root]

compute_signing_root(beacon_header, domain) ==
    LET beacon_header_root == hash_tree_root_beacon_header(beacon_header)
    IN  IF ~beacon_header_root.ok THEN [result |-> "Other", root |-> ZeroRoot]
        ELSE LET hash_root == hash_tree_root_signing_data(
                     [object_root |-> beacon_header_root.root, domain |-> domain])
             IN  IF ~hash_root.ok THEN [result |-> "Other", root |-> ZeroRoot]
                 ELSE [result |-> "Ok", root |-> hash_root.root]

----------------------------------------------------------------------------
(* BLS (milagro_bls), symbolic: a signature names the keys that made it    *)
(* and the message they signed.                                            *)

BlsSign(pubkeys, message) ==
    [encoding |-> "valid",
     signers |-> {pubkeys[i] : i \in 1..Len(pubkeys)},
     message |-> message]

\* Signature bytes that Signature::from_bytes refuses.
InvalidSignature == [encoding |-> "invalid", signers |-> {}, message |-> ZeroRoot]

\* Signature::from_bytes
Signature_from_bytes(signature) == signature.encoding = "valid"

\* PublicKey::from_bytes_unchecked: "Ok", "InvalidPoint" or another error.
PublicKey_from_bytes_unchecked(pubkey) ==
    IF pubkey = ZeroKey THEN "InvalidPoint" ELSE "Ok"

\* AggregatePublicKey::into_aggregate: no key to aggregate is an error.
AggregatePublicKey_into_aggregate(pubkeys) ==
    [ok |-> pubkeys # <<>>,
     key |-> {pubkeys[i] : i \in 1..Len(pubkeys)}]

fast_aggregate_verify_pre_aggregated(sig, message, aggregate_pubkey) ==
    sig.signers = aggregate_pubkey /\ sig.message = message

\* A bls_fast_aggregate_verify that goes on to the pairing check with an
\* aggregate of no key.
bls_fast_aggregate_verify_of_any_aggregate(pubkeys, message, signature) ==
    IF ~Signature_from_bytes(signature) THEN "InvalidSignature"
    ELSE IF \E i \in 1..Len(pubkeys) :
                PublicKey_from_bytes_unchecked(pubkeys[i]) = "InvalidPoint"
    THEN "InvalidSignaturePoint"
    ELSE IF ~fast_aggregate_verify_pre_aggregated(
                 signature, message,
                 AggregatePublicKey_into_aggregate(pubkeys).key)
    THEN "SignatureVerificationFailed"
    ELSE "Ok"

bls_fast_aggregate_verify(pubkeys, message, signature) ==
    IF ~Signature_from_bytes(signature) THEN "InvalidSignature"
    ELSE IF \E i \in 1..Len(pubkeys) :
                PublicKey_from_bytes_unchecked(pubkeys[i]) = "InvalidPoint"
    THEN "InvalidSignaturePoint"
    ELSE IF \E i \in 1..Len(pubkeys) :
                PublicKey_from_bytes_unchecked(pubkeys[i]) # "Ok"
    THEN "InvalidSignature"
    ELSE LET agg_pub_key_res == AggregatePublicKey_into_aggregate(pubkeys)
         IN  IF ~agg_pub_key_res.ok THEN "InvalidAggregatePublicKeys"
             ELSE IF ~fast_aggregate_verify_pre_aggregated(
                          signature, message, agg_pub_key_res.key)
             THEN "SignatureVerificationFailed"
             ELSE "Ok"

\* The pubkeys whose bit is 1, over the zip of bits and pubkeys.
RECURSIVE participant_pubkeys(_, _)
participant_pubkeys(sync_committee_bits, sync_committee_pubkeys) ==
    IF sync_committee_bits = <<>> \/ sync_committee_pubkeys = <<>> THEN <<>>
    ELSE (IF Head(sync_committee_bits) = 1
          THEN <<Head(sync_committee_pubkeys)>> ELSE <<>>)
         \o participant_pubkeys(Tail(sync_committee_bits),
                                Tail(sync_committee_pubkeys))

\* A verify_signed_header that counts the participants and does not check
\* the signature.
verify_signed_header_counts_only(sync_committee_bits_hex, sync_committee_signature, sync_committee_pubkeys, fork_version, header, validators_root) ==
    IF get_sync_committee_sum(convert_to_binary(sync_committee_bits_hex))
           < MIN_SYNC_COMMITTEE_PARTICIPANTS
    THEN "InsufficientSyncCommitteeParticipants"
    ELSE "Ok"

verify_signed_header(sync_committee_bits_hex, sync_committee_signature, sync_committee_pubkeys, fork_version, header, validators_root) ==
    LET sync_committee_bits == convert_to_binary(sync_committee_bits_hex)
    IN  IF get_sync_committee_sum(sync_committee_bits)
               < MIN_SYNC_COMMITTEE_PARTICIPANTS
        THEN "InsufficientSyncCommitteeParticipants"
        ELSE LET pubkeys == participant_pubkeys(sync_committee_bits,
                                                sync_committee_pubkeys)
                 domain == compute_domain(DOMAIN_SYNC_COMMITTEE,
                                          <<fork_version>>, validators_root)
             IN  IF domain.result # "Ok" THEN domain.result
                 ELSE LET signing_root ==
                              compute_signing_root(header, domain.domain)
                      IN  IF signing_root.result # "Ok" THEN signing_root.result
                          ELSE bls_fast_aggregate_verify(
                                   pubkeys, signing_root.root,
                                   sync_committee_signature)

----------------------------------------------------------------------------
(* Merkle checks of the update processor *)

verify_sync_committee(sync_committee, sync_committee_branch, header_state_root, depth, index) ==
    LET sync_committee_root == hash_tree_root_sync_committee(sync_committee)
    IN  IF ~sync_committee_root.ok THEN "Other"
        ELSE IF merkle_branch_panics(sync_committee_branch, depth) THEN "Panic"
        ELSE IF ~is_valid_merkle_branch(sync_committee_root.root,
                                        sync_committee_branch, depth, index,
                                        header_state_root)
        THEN "InvalidSyncCommitteeMerkleProof"
        ELSE "Ok"

verify_header(header, proof_branch, attested_header_state_root, depth, index) ==
    LET leaf == hash_tree_root_beacon_header(header)
    IN  IF ~leaf.ok THEN "Other"
        ELSE IF merkle_branch_panics(proof_branch, depth) THEN "Panic"
        ELSE IF ~is_valid_merkle_branch(leaf.root, proof_branch, depth, index,
                                        attested_header_state_root)
        THEN "InvalidHeaderMerkleProof"
        ELSE "Ok"

----------------------------------------------------------------------------
(* The storage a call works on, with the history kept beside it *)

World ==
    [FinalizedHeaders |-> FinalizedHeaders,
     FinalizedHeadersBySlot |-> FinalizedHeadersBySlot,
     UnverifiedHeaders |-> UnverifiedHeaders,
     SyncCommittees |-> SyncCommittees,
     ChainGenesis |-> ChainGenesis,
     committeeProof |-> committeeProof,
     stagedProof |-> stagedProof,
     headerProof |-> headerProof,
     synced |-> synced]

store_sync_committee(W, period, sync_committee) ==
    [W EXCEPT !.SyncCommittees = StorageInsert(@, period, sync_committee)]

\* A store_header that writes the header and not the slot index.
store_header_by_root_only(W, header) ==
    [W EXCEPT !.FinalizedHeaders = StorageInsert(@, header.body_root, header)]

store_header(W, header) ==
    [W EXCEPT
        !.FinalizedHeaders = StorageInsert(@, header.body_root, header),
        !.FinalizedHeadersBySlot = StorageInsert(@, header.slot, header.body_root)]

store_genesis(W, genesis) == [W EXCEPT !.ChainGenesis = <<genesis>>]

\* A store_unverified_signed_header that keys the entry by the slot of its
\* attested header.
store_unverified_signed_header_by_attested(W, slot, unverified_header) ==
    [W EXCEPT !.UnverifiedHeaders =
         StorageInsert(@, unverified_header.attested_header.slot,
                       unverified_header)]

\* A store_unverified_signed_header that also stores the finalized header.
store_unverified_signed_header_and_header(W, slot, unverified_header) ==
    store_header([W EXCEPT !.UnverifiedHeaders =
                      StorageInsert(@, slot, unverified_header)],
                 unverified_header.finalized_header)

\* A store_unverified_signed_header that keeps an entry already staged.
store_unverified_signed_header_if_absent(W, slot, unverified_header) ==
    IF StorageContains(W.UnverifiedHeaders, slot) THEN W
    ELSE [W EXCEPT !.UnverifiedHeaders = StorageInsert(@, slot, unverified_header)]

store_unverified_signed_header(W, slot, unverified_header) ==
    [W EXCEPT !.UnverifiedHeaders = StorageInsert(@, slot, unverified_header)]

\* History: what the call had checked when it wrote SyncCommittees[period].
note_committee(W, period, proof) ==
    [W EXCEPT !.committeeProof = StorageInsert(@, period, proof)]

\* History: what the call had checked when it wrote UnverifiedHeaders[slot].
note_staged(W, slot, proof) ==
    [W EXCEPT !.stagedProof = StorageInsert(@, slot, proof)]

\* History: what the call had checked when it wrote FinalizedHeaders[body_root].
note_header(W, body_root, proof) ==
    [W EXCEPT !.headerProof = StorageInsert(@, body_root, proof)]

\* The header is stored, as it stands, in FinalizedHeaders.
IsFinalized(W, header) ==
    /\ header.body_root \in DOMAIN W.FinalizedHeaders
    /\ W.FinalizedHeaders[header.body_root] = header

----------------------------------------------------------------------------
(* Update processor *)

process_initial_sync(W, initial_sync) ==
    LET checked == verify_sync_committee(
                       initial_sync.current_sync_committee,
                       initial_sync.current_sync_committee_branch,
                       initial_sync.header.state_root,
                       CURRENT_SYNC_COMMITTEE_DEPTH,
                       CURRENT_SYNC_COMMITTEE_INDEX)
    IN  IF checked # "Ok" THEN [result |-> checked, world |-> W]
        ELSE LET period == compute_current_sync_period(initial_sync.header.slot)
                 W1 == store_sync_committee(W, period,
                                            initial_sync.current_sync_committee)
                 W2 == store_header(W1, initial_sync.header)
                 W3 == store_genesis(W2,
                           [validators_root |-> initial_sync.validators_root])
                 H1 == note_committee(W3, period,
                           [op |-> "initial_sync",
                            header_slot |-> initial_sync.header.slot,
                            period_from_slot |-> initial_sync.header.slot,
                            verified |-> (checked = "Ok"),
                            trusted |-> TRUE])
                 H2 == note_header(H1, initial_sync.header.body_root,
                           [op |-> "initial_sync",
                            finality_verified |-> FALSE,
                            signature_verified |-> FALSE])
             IN  [result |-> "Ok", world |-> [H2 EXCEPT !.synced = TRUE]]

\* A process_sync_committee_period_update that takes the period from the
\* update's sync_committee_period field.
process_sync_committee_period_update_as_labelled(W, update) ==
    LET committee_checked == verify_sync_committee(
                                 update.next_sync_committee,
                                 update.next_sync_committee_branch,
                                 update.finalized_header.state_root,
                                 NEXT_SYNC_COMMITTEE_DEPTH,
                                 NEXT_SYNC_COMMITTEE_INDEX)
        header_checked == verify_header(
                              update.finalized_header,
                              update.finality_branch,
                              update.attested_header.state_root,
                              FINALIZED_ROOT_DEPTH,
                              FINALIZED_ROOT_INDEX)
    IN  IF committee_checked # "Ok"
        THEN [result |-> committee_checked, world |-> W]
        ELSE IF header_checked # "Ok"
        THEN [result |-> header_checked, world |-> W]
        ELSE LET current_period == update.sync_committee_period - 1
                 W1 == store_sync_committee(W, current_period + 1,
                                            update.next_sync_committee)
                 slot == update.finalized_header.slot
                 unverified_header ==
                     [attested_header |-> update.attested_header,
                      finalized_header |-> update.finalized_header,
                      sync_aggregate |-> update.sync_aggregate,
                      fork_version |-> update.fork_version,
                      period |-> current_period]
                 W2 == store_unverified_signed_header(W1, slot, unverified_header)
                 H1 == note_committee(W2, current_period + 1,
                           [op |-> "sync_committee_period_update",
                            header_slot |-> update.finalized_header.slot,
                            period_from_slot |-> update.attested_header.slot,
                            verified |-> (committee_checked = "Ok"),
                            trusted |-> IsFinalized(W, update.finalized_header)])
                 H2 == note_staged(H1, slot,
                           [finality_verified |->
                                verify_header(
                                    unverified_header.finalized_header,
                                    update.finality_branch,
                                    unverified_header.attested_header.state_root,
                                    FINALIZED_ROOT_DEPTH,
                                    FINALIZED_ROOT_INDEX) = "Ok"])
             IN  [result |-> "Ok", world |-> H2]

process_sync_committee_period_update(W, update) ==
    LET committee_checked == verify_sync_committee(
                                 update.next_sync_committee,
                                 update.next_sync_committee_branch,
                                 update.finalized_header.state_root,
                                 NEXT_SYNC_COMMITTEE_DEPTH,
                                 NEXT_SYNC_COMMITTEE_INDEX)
        header_checked == verify_header(
                              update.finalized_header,
                              update.finality_branch,
                              update.attested_header.state_root,
                              FINALIZED_ROOT_DEPTH,
                              FINALIZED_ROOT_INDEX)
    IN  IF committee_checked # "Ok"
        THEN [result |-> committee_checked, world |-> W]
        ELSE IF header_checked # "Ok"
        THEN [result |-> header_checked, world |-> W]
        ELSE LET current_period ==
                     compute_current_sync_period(update.attested_header.slot)
                 W1 == store_sync_committee(W, current_period + 1,
                                            update.next_sync_committee)
                 slot == update.finalized_header.slot
                 unverified_header ==
                     [attested_header |-> update.attested_header,
                      finalized_header |-> update.finalized_header,
                      sync_aggregate |-> update.sync_aggregate,
                      fork_version |-> update.fork_version,
                      period |-> current_period]
                 W2 == store_unverified_signed_header(W1, slot, unverified_header)
                 H1 == note_committee(W2, current_period + 1,
                           [op |-> "sync_committee_period_update",
                            header_slot |-> update.finalized_header.slot,
                            period_from_slot |-> update.attested_header.slot,
                            verified |-> (committee_checked = "Ok"),
                            trusted |-> IsFinalized(W, update.finalized_header)])
                 H2 == note_staged(H1, slot,
                           [finality_verified |->
                                verify_header(
                                    unverified_header.finalized_header,
                                    update.finality_branch,
                                    unverified_header.attested_header.state_root,
                                    FINALIZED_ROOT_DEPTH,
                                    FINALIZED_ROOT_INDEX) = "Ok"])
             IN  [result |-> "Ok", world |-> H2]

\* A process_finalized_header that stages the update without checking the
\* finality branch.
process_finalized_header_unchecked(W, update) ==
    LET current_period ==
            compute_current_sync_period(update.attested_header.slot)
        slot == update.finalized_header.slot
        unverified_header ==
            [attested_header |-> update.attested_header,
             finalized_header |-> update.finalized_header,
             sync_aggregate |-> update.sync_aggregate,
             fork_version |-> update.fork_version,
             period |-> current_period]
        W1 == store_unverified_signed_header(W, slot, unverified_header)
        H1 == note_staged(W1, slot,
                  [finality_verified |->
                       verify_header(
                           unverified_header.finalized_header,
                           update.finality_branch,
                           unverified_header.attested_header.state_root,
                           FINALIZED_ROOT_DEPTH,
                           FINALIZED_ROOT_INDEX) = "Ok"])
    IN  [result |-> "Ok", world |-> H1]

process_finalized_header(W, update) ==
    LET header_checked == verify_header(
                              update.finalized_header,
                              update.finality_branch,
                              update.attested_header.state_root,
                              FINALIZED_ROOT_DEPTH,
                              FINALIZED_ROOT_INDEX)
    IN  IF header_checked # "Ok"
        THEN [result |-> header_checked, world |-> W]
        ELSE LET current_period ==
                     compute_current_sync_period(update.attested_header.slot)
                 slot == update.finalized_header.slot
                 unverified_header ==
                     [attested_header |-> update.attested_header,
                      finalized_header |-> update.finalized_header,
                      sync_aggregate |-> update.sync_aggregate,
                      fork_version |-> update.fork_version,
                      period |-> current_period]
                 W1 == store_unverified_signed_header(W, slot, unverified_header)
                 H1 == note_staged(W1, slot,
                           [finality_verified |->
                                verify_header(
                                    unverified_header.finalized_header,
                                    update.finality_branch,
                                    unverified_header.attested_header.state_root,
                                    FINALIZED_ROOT_DEPTH,
                                    FINALIZED_ROOT_INDEX) = "Ok"])
             IN  [result |-> "Ok", world |-> H1]

verify_and_store_finalized_header_any_committee(W, slot) ==
    IF ~StorageContains(W.UnverifiedHeaders, slot)
    THEN [result |-> "UnverifiedHeaderNotFound", world |-> W]
    ELSE LET unverified_header == W.UnverifiedHeaders[slot]
             sync_committee ==
                 SyncCommittees_get(W.SyncCommittees, unverified_header.period)
             genesis == ChainGenesis_get(W.ChainGenesis)
             signed == verify_signed_header(
                 unverified_header.sync_aggregate.sync_committee_bits,
                 unverified_header.sync_aggregate.sync_committee_signature,
                 sync_committee.pubkeys,
                 unverified_header.fork_version,
                 unverified_header.attested_header,
                 genesis.validators_root)
         IN  IF signed # "Ok" THEN [result |-> signed, world |-> W]
             ELSE LET W1 == store_header(W, unverified_header.finalized_header)
                      W2 == [W1 EXCEPT !.UnverifiedHeaders =
                                 StorageRemove(@, slot)]
                      H1 == note_header(W2,
                              unverified_header.finalized_header.body_root,
                              [op |-> "import_finalized_header",
                               finality_verified |->
                                   /\ slot \in DOMAIN W.stagedProof
                                   /\ W.stagedProof[slot].finality_verified,
                               signature_verified |-> (signed = "Ok")])
                      H2 == [H1 EXCEPT !.stagedProof = StorageRemove(@, slot)]
                  IN  [result |-> "Ok", world |-> H2]

verify_and_store_finalized_header(W, slot) ==
    IF ~StorageContains(W.UnverifiedHeaders, slot)
    THEN [result |-> "UnverifiedHeaderNotFound", world |-> W]
    ELSE LET unverified_header == W.UnverifiedHeaders[slot]
             sync_committee ==
                 SyncCommittees_get(W.SyncCommittees, unverified_header.period)
         IN  IF sync_committee = DefaultSyncCommittee
             THEN [result |-> "SyncCommitteeMissing", world |-> W]
             ELSE LET genesis == ChainGenesis_get(W.ChainGenesis)
                      signed == verify_signed_header(
                          unverified_header.sync_aggregate.sync_committee_bits,
                          unverified_header.sync_aggregate.sync_committee_signature,
                          sync_committee.pubkeys,
                          unverified_header.fork_version,
                          unverified_header.attested_header,
                          genesis.validators_root)
                  IN  IF signed # "Ok" THEN [result |-> signed, world |-> W]
                      ELSE LET W1 == store_header(
                                       W, unverified_header.finalized_header)
                               W2 == [W1 EXCEPT !.UnverifiedHeaders =
                                          StorageRemove(@, slot)]
                               H1 == note_header(W2,
                                       unverified_header.finalized_header.body_root,
                                       [op |-> "import_finalized_header",
                                        finality_verified |->
                                            /\ slot \in DOMAIN W.stagedProof
                                            /\ W.stagedProof[slot].finality_verified,
                                        signature_verified |-> (signed = "Ok")])
                               H2 == [H1 EXCEPT !.stagedProof =
                                          StorageRemove(@, slot)]
                           IN  [result |-> "Ok", world |-> H2]

----------------------------------------------------------------------------
(* What relayers submit.  A beacon state root commits to the finalized     *)
(* checkpoint (leaf 20 of the state, its root at index 41 one level down)  *)
(* and to the current and next sync committees (leaves 22 and 23); every   *)
(* other sibling on the three paths is the zero chunk.                     *)

Slots == {8191, 8192}

BodyRoots == {<<1>>, <<2>>}

ValidatorsRoots == {<<11>>, <<12>>}

UpdateForkVersion == <<0, 0, 0, 1>>

Committee(base) ==
    [pubkeys |-> [i \in 1..CommitteeSize |-> base + i],
     aggregate_pubkey |-> base]

CommitteeA == Committee(20)

CommitteeB == Committee(30)

Committees == {CommitteeA, CommitteeB}

Signed(who) == [signed |-> TRUE, who |-> who]

\* RawOrigin::None, which ensure_signed refuses.
Unsigned == [signed |-> FALSE, who |-> 0]

CommitteeRoot(c) == hash_tree_root_sync_committee(c).root

CheckpointNode(finalized_root) == sha2_256(ZeroRoot, finalized_root)

CommitteesNode(current, next) ==
    sha2_256(CommitteeRoot(current), CommitteeRoot(next))

BeaconStateRoot(finalized_root, current, next) ==
    sha2_256(ZeroRoot,
        sha2_256(
            sha2_256(ZeroRoot,
                sha2_256(sha2_256(CheckpointNode(finalized_root), ZeroRoot),
                         CommitteesNode(current, next))),
            ZeroRoot))

CurrentSyncCommitteeBranch(finalized_root, current, next) ==
    <<CommitteeRoot(next),
      sha2_256(CheckpointNode(finalized_root), ZeroRoot),
      ZeroRoot, ZeroRoot, ZeroRoot>>

NextSyncCommitteeBranch(finalized_root, current, next) ==
    <<CommitteeRoot(current),
      sha2_256(CheckpointNode(finalized_root), ZeroRoot),
      ZeroRoot, ZeroRoot, ZeroRoot>>

FinalityBranch(finalized_root, current, next) ==
    <<ZeroRoot, ZeroRoot, CommitteesNode(current, next),
      ZeroRoot, ZeroRoot, ZeroRoot>>

\* The committee of a period on the canonical chain.
ChainCommittee(period) == IF period % 2 = 0 THEN CommitteeA ELSE CommitteeB

\* The committees a header's state commits to: those of the canonical chain
\* for body root <<1>>, the two swapped for the conflicting body root <<2>>.
CurrentOf(slot, body_root) ==
    LET p == compute_current_sync_period(slot)
    IN  IF body_root = <<1>> THEN ChainCommittee(p) ELSE ChainCommittee(p + 1)

NextOf(slot, body_root) ==
    LET p == compute_current_sync_period(slot)
    IN  IF body_root = <<1>> THEN ChainCommittee(p + 1) ELSE ChainCommittee(p)

\* A header nothing older is finalized under.
HeaderAt(slot, body_root) ==
    [slot |-> slot, proposer_index |-> 0, parent_root |-> ZeroRoot,
     state_root |-> BeaconStateRoot(ZeroRoot, CurrentOf(slot, body_root),
                                    NextOf(slot, body_root)),
     body_root |-> body_root]

Headers == {HeaderAt(s, b) : s \in Slots, b \in BodyRoots}

\* A header at `slot` whose state has `finalized` as its finalized checkpoint.
AttestedHeader(slot, finalized) ==
    [slot |-> slot, proposer_index |-> 0, parent_root |-> ZeroRoot,
     state_root |-> BeaconStateRoot(
                        hash_tree_root_beacon_header(finalized).root,
                        CurrentOf(slot, <<1>>), NextOf(slot, <<1>>)),
     body_root |-> <<3>>]

\* A branch with one sibling changed, and one a sibling short.
Tampered(branch) == [branch EXCEPT ![1] = <<9>>]

Truncated(branch) == SubSeq(branch, 1, Len(branch) - 1)

FullBits == <<Pow2(CommitteeSize) - 1>>

SigningRootOf(header, validators_root) ==
    compute_signing_root(header,
        compute_domain(DOMAIN_SYNC_COMMITTEE, <<UpdateForkVersion>>,
                       validators_root).domain).root

\* All members of the attested slot's committee sign, under the genesis
\* validators root <<11>> or under the zero root of a chain with no genesis.
SyncAggregatesFor(attested) ==
    {[sync_committee_bits |-> FullBits,
      sync_committee_signature |->
          BlsSign(CurrentOf(attested.slot, <<1>>).pubkeys,
                  SigningRootOf(attested, vr))] :
         vr \in IF attested.slot = 8192 THEN {<<11>>, ZeroRoot} ELSE {<<11>>}}

OtherCommittee(c) == IF c = CommitteeA THEN CommitteeB ELSE CommitteeA

\* The checkpoint a relayer builds from header h, with its proof.
Checkpoint(h, validators_root) ==
    [header |-> h,
     current_sync_committee |-> CurrentOf(h.slot, h.body_root),
     current_sync_committee_branch |->
         CurrentSyncCommitteeBranch(ZeroRoot, CurrentOf(h.slot, h.body_root),
                                    NextOf(h.slot, h.body_root)),
     validators_root |-> validators_root]

\* Checkpoints that do not check out: another committee than the state
\* commits to, a changed sibling, a branch of 4 siblings, a committee with
\* a public key missing (not the vector its SSZ type requires).
BadInitialSyncs ==
    LET good == Checkpoint(HeaderAt(8191, <<1>>), <<11>>)
    IN  {[good EXCEPT !.current_sync_committee = OtherCommittee(@)],
         [good EXCEPT !.current_sync_committee_branch = Tampered(@)],
         [good EXCEPT !.current_sync_committee_branch = Truncated(@)],
         [good EXCEPT !.current_sync_committee.pubkeys = Truncated(@)]}

InitialSyncs ==
    {Checkpoint(h, <<11>>) : h \in Headers}
    \cup {Checkpoint(HeaderAt(8191, <<1>>), vr) : vr \in ValidatorsRoots}
    \cup BadInitialSyncs

\* The attested headers that finalize `finalized`: not older than it.
AttestedHeadersFor(finalized) ==
    {AttestedHeader(s, finalized) : s \in {x \in Slots : x >= finalized.slot}}

FinalityUpdate(finalized, attested, aggregate) ==
    [attested_header |-> attested,
     finalized_header |-> finalized,
     finality_branch |->
         FinalityBranch(hash_tree_root_beacon_header(finalized).root,
                        CurrentOf(attested.slot, <<1>>),
                        NextOf(attested.slot, <<1>>)),
     sync_aggregate |-> aggregate,
     fork_version |-> UpdateForkVersion]

FinalizedHeaderUpdatesFor(finalized, attested) ==
    {FinalityUpdate(finalized, attested, a) :
         a \in SyncAggregatesFor(attested)}

\* The update that finalizes the header at 8191 by an attested header of the
\* same slot, signed by the whole committee under validators root <<11>>.
GoodUpdate ==
    FinalityUpdate(HeaderAt(8191, <<1>>),
                   AttestedHeader(8191, HeaderAt(8191, <<1>>)),
                   [sync_committee_bits |-> FullBits,
                    sync_committee_signature |->
                        BlsSign(CurrentOf(8191, <<1>>).pubkeys,
                                SigningRootOf(
                                    AttestedHeader(8191, HeaderAt(8191, <<1>>)),
                                    <<11>>))])

\* Updates whose finality branch does not check out: a changed sibling, a
\* branch of 5 siblings.
BadFinalizedHeaderUpdates ==
    LET good == GoodUpdate
    IN  {[good EXCEPT !.finality_branch = Tampered(@)],
         [good EXCEPT !.finality_branch = Truncated(@)]}

\* Updates with a good finality branch that cannot pass the BLS step: a
\* signature that does not decode, and participation bits that select no
\* member (the one bit set is past the end of the committee).
UnverifiableFinalizedHeaderUpdates ==
    {[GoodUpdate EXCEPT
          !.sync_aggregate.sync_committee_signature = InvalidSignature],
     [GoodUpdate EXCEPT
          !.sync_aggregate.sync_committee_bits = <<Pow2(CommitteeSize)>>]}

FinalizedHeaderUpdates ==
    UNION {UNION {FinalizedHeaderUpdatesFor(f, a) :
                      a \in AttestedHeadersFor(f)} : f \in Headers}
    \cup BadFinalizedHeaderUpdates

\* A finality update that also rotates the committee to the next one the
\* finalized header's state commits to.
PeriodUpdate(u) ==
    [attested_header |-> u.attested_header,
     next_sync_committee |->
         NextOf(u.finalized_header.slot, u.finalized_header.body_root),
     next_sync_committee_branch |->
         NextSyncCommitteeBranch(ZeroRoot,
             CurrentOf(u.finalized_header.slot, u.finalized_header.body_root),
             NextOf(u.finalized_header.slot, u.finalized_header.body_root)),
     finalized_header |-> u.finalized_header,
     finality_branch |-> u.finality_branch,
     sync_aggregate |-> u.sync_aggregate,
     fork_version |-> u.fork_version,
     sync_committee_period |->
         compute_current_sync_period(u.attested_header.slot) + 1]

\* Updates that do not check out: a bad finality branch, another next
\* committee than the finalized state commits to, a committee branch of 4.
BadSyncCommitteePeriodUpdates ==
    LET good == PeriodUpdate(GoodUpdate)
    IN  {PeriodUpdate(u) : u \in BadFinalizedHeaderUpdates}
        \cup {[good EXCEPT !.next_sync_committee = OtherCommittee(@)],
              [good EXCEPT !.next_sync_committee_branch = Truncated(@)],
              [good EXCEPT !.next_sync_committee.pubkeys = Truncated(@)]}

\* A good update that names another period than the one it is attested in.
MislabelledPeriodUpdate ==
    [PeriodUpdate(GoodUpdate) EXCEPT !.sync_committee_period = 7]

SyncCommitteePeriodUpdates ==
    {PeriodUpdate(u) : u \in {v \in FinalizedHeaderUpdates \ BadFinalizedHeaderUpdates :
                                 v.sync_aggregate.sync_committee_signature.message =
                                     SigningRootOf(v.attested_header, <<11>>)}}
    \cup BadSyncCommitteePeriodUpdates
    \cup {MislabelledPeriodUpdate}

----------------------------------------------------------------------------
(* Extrinsics *)

\* ensure_signed(origin)
ensure_signed(origin) == origin.signed

\* #[transactional]: the writes of a call that does not return Ok(()) are
\* dropped (a panic aborts the extrinsic as a whole).
transactional(W, out) ==
    IF out.result = "Ok" THEN out ELSE [result |-> out.result, world |-> W]

NoArg == <<>>

\* The call has run: its outcome is what the chain holds from here on.
Dispatch(op, out, arg) ==
    /\ steps < MaxSteps
    /\ \E done \in {out} :
         /\ steps' = steps + 1
         /\ FinalizedHeaders' = done.world.FinalizedHeaders
         /\ FinalizedHeadersBySlot' = done.world.FinalizedHeadersBySlot
         /\ UnverifiedHeaders' = done.world.UnverifiedHeaders
         /\ SyncCommittees' = done.world.SyncCommittees
         /\ ChainGenesis' = done.world.ChainGenesis
         /\ committeeProof' = done.world.committeeProof
         /\ stagedProof' = done.world.stagedProof
         /\ headerProof' = done.world.headerProof
         /\ synced' = done.world.synced
         /\ last' = [op |-> op, result |-> done.result,
                     arg |-> IF done.result = "Ok" THEN <<arg>> ELSE NoArg]

BadOrigin == [result |-> "BadOrigin", world |-> World]

initial_sync(origin, initial_sync_arg) ==
    Dispatch("initial_sync",
             transactional(World,
                 IF ~ensure_signed(origin) THEN BadOrigin
                 ELSE process_initial_sync(World, initial_sync_arg)),
             initial_sync_arg)

sync_committee_period_update(origin, update) ==
    Dispatch("sync_committee_period_update",
             transactional(World,
                 IF ~ensure_signed(origin) THEN BadOrigin
                 ELSE process_sync_committee_period_update(World, update)),
             update)

finalized_header_update(origin, update) ==
    Dispatch("finalized_header_update",
             transactional(World,
                 IF ~ensure_signed(origin) THEN BadOrigin
                 ELSE process_finalized_header(World, update)),
             update)

\* An import_finalized_header that takes the staged entry out before it
\* checks the signature, and is not transactional.
import_finalized_header_unstages(origin, slot) ==
    Dispatch("import_finalized_header",
             IF ~ensure_signed(origin) THEN BadOrigin
             ELSE LET W == [World EXCEPT !.UnverifiedHeaders =
                                StorageRemove(@, slot)]
                      out == verify_and_store_finalized_header(World, slot)
                  IN  IF out.result = "Ok" THEN out
                      ELSE [result |-> out.result, world |-> W],
             slot)

import_finalized_header_ignores_absent(origin, slot) ==
    Dispatch("import_finalized_header",
             transactional(World,
                 IF ~ensure_signed(origin) THEN BadOrigin
                 ELSE IF ~StorageContains(UnverifiedHeaders, slot)
                      THEN [result |-> "Ok", world |-> World]
                      ELSE verify_and_store_finalized_header(World, slot)),
             slot)

import_finalized_header(origin, slot) ==
    Dispatch("import_finalized_header",
             transactional(World,
                 IF ~ensure_signed(origin) THEN BadOrigin
                 ELSE verify_and_store_finalized_header(World, slot)),
             slot)

InitialSync ==
    \/ \E c \in InitialSyncs : initial_sync(Signed(1), c)
    \/ initial_sync(Unsigned, Checkpoint(HeaderAt(8191, <<1>>), <<11>>))

SyncCommitteePeriodUpdate ==
    \/ \E u \in SyncCommitteePeriodUpdates :
           sync_committee_period_update(Signed(1), u)
    \/ \E u \in {PeriodUpdate(GoodUpdate)} :
           sync_committee_period_update(Unsigned, u)

FinalizedHeaderUpdate ==
    \/ \E u \in FinalizedHeaderUpdates \cup UnverifiableFinalizedHeaderUpdates :
           finalized_header_update(Signed(1), u)
    \/ \E u \in {GoodUpdate} : finalized_header_update(Unsigned, u)

ImportFinalizedHeader ==
    \/ \E s \in Slots : import_finalized_header(Signed(1), s)
    \/ import_finalized_header(Unsigned, 8191)

Init ==
    /\ FinalizedHeaders = EmptyMap
    /\ FinalizedHeadersBySlot = EmptyMap
    /\ UnverifiedHeaders = EmptyMap
    /\ SyncCommittees = EmptyMap
    /\ ChainGenesis = <<>>
    /\ committeeProof = EmptyMap
    /\ stagedProof = EmptyMap
    /\ headerProof = EmptyMap
    /\ synced = FALSE
    /\ last = [op |-> "none", result |-> "Ok", arg |-> NoArg]
    /\ steps = 0

Next ==
    \/ InitialSync
    \/ SyncCommitteePeriodUpdate
    \/ FinalizedHeaderUpdate
    \/ ImportFinalizedHeader

Spec == Init /\ [][Next]_vars

----------------------------------------------------------------------------
(* The helper functions on their own: one application to an input drawn   *)
(* from a bounded set, its arguments and outcome left in `last`.           *)

ByteValues == {0, 1, 2, 10, 33, 128, 253, 255}

\* sync_committee_bits as submitted: at most two bytes.
BitsHex ==
    {<<>>} \cup {<<b>> : b \in ByteValues}
           \cup {<<b, c>> : b \in ByteValues, c \in ByteValues}

\* Participation flags, one per member; the vector of test_get_sync_committee_sum.
BitVectors ==
    {<<>>, <<0, 1, 0, 1, 1, 0, 1, 0, 1>>}
    \cup {<<a>> : a \in {0, 1}}
    \cup {<<a, b>> : a \in {0, 1}, b \in {0, 1}}
    \cup {<<a, b, c>> : a \in {0, 1}, b \in {0, 1}, c \in {0, 1}}

Siblings == {ZeroRoot, <<5>>}

SmallBranches ==
    {<<>>} \cup {<<a>> : a \in Siblings}
           \cup {<<a, b>> : a \in Siblings, b \in Siblings}

\* The root a prover computes for leaf from the first d siblings of branch:
\* at level i the node is the left child when bit i of index is 0.
RECURSIVE RootFrom(_, _, _, _)
RootFrom(leaf, branch, index, d) ==
    IF d = 0 THEN leaf
    ELSE LET below == RootFrom(leaf, branch, index, d - 1)
         IN  IF (index \div Pow2(d - 1)) % 2 = 0
             THEN <<-1>> \o below \o branch[d]
             ELSE <<-1>> \o branch[d] \o below

MerkleInput(leaf, branch, depth, index, root) ==
    [leaf |-> leaf, branch |-> branch, depth |-> depth, index |-> index,
     root |-> root]

\* Proofs over small trees, with the root the branch leads to, the leaf
\* itself or an unrelated value as root; and the three proofs of a beacon
\* state, whole and cut short.
MerkleInputs ==
    UNION {{MerkleInput(leaf, branch, depth, index, root) :
               root \in {leaf, <<9>>}
                   \cup (IF Len(branch) >= depth
                         THEN {RootFrom(leaf, branch, index, depth)} ELSE {})} :
           leaf \in {<<1>>, <<2>>}, branch \in SmallBranches,
           depth \in 0..2, index \in 0..3}
    \cup UNION {
        LET current == CurrentOf(8191, <<1>>)
            next == NextOf(8191, <<1>>)
            root == BeaconStateRoot(f, current, next)
        IN  {MerkleInput(CommitteeRoot(current),
                         CurrentSyncCommitteeBranch(f, current, next),
                         CURRENT_SYNC_COMMITTEE_DEPTH,
                         CURRENT_SYNC_COMMITTEE_INDEX, root),
             MerkleInput(CommitteeRoot(next),
                         NextSyncCommitteeBranch(f, current, next),
                         NEXT_SYNC_COMMITTEE_DEPTH,
                         NEXT_SYNC_COMMITTEE_INDEX, root),
             MerkleInput(f, FinalityBranch(f, current, next),
                         FINALIZED_ROOT_DEPTH, FINALIZED_ROOT_INDEX, root),
             MerkleInput(f, Truncated(FinalityBranch(f, current, next)),
                         FINALIZED_ROOT_DEPTH, FINALIZED_ROOT_INDEX, root),
             MerkleInput(f, Tampered(FinalityBranch(f, current, next)),
                         FINALIZED_ROOT_DEPTH, FINALIZED_ROOT_INDEX, root)} :
        f \in {ZeroRoot, hash_tree_root_beacon_header(HeaderAt(8191, <<1>>)).root}}

\* What verify_signed_header is given: the bits, a signature (of the whole
\* committee, of its first member, not decodable), the committee's keys
\* (also with the zero key, also none).
SignedHeaderInputs ==
    LET header == HeaderAt(8191, <<1>>)
        message == SigningRootOf(header, <<11>>)
    IN  {[sync_committee_bits_hex |-> bits,
          sync_committee_signature |-> sig,
          sync_committee_pubkeys |-> keys,
          fork_version |-> UpdateForkVersion,
          header |-> header,
          validators_root |-> <<11>>] :
             bits \in {<<>>, <<0>>, <<1>>, <<2>>, <<3>>, <<0, 0>>, <<255>>},
             sig \in {BlsSign(CommitteeA.pubkeys, message),
                      BlsSign(<<CommitteeA.pubkeys[1]>>, message),
                      InvalidSignature},
             keys \in {CommitteeA.pubkeys,
                       [CommitteeA.pubkeys EXCEPT ![1] = ZeroKey], <<>>}}

\* The outcome of one application: what was applied, to what, and what it
\* returned (or ended in).
Applied(f, args, result) == [op |-> f, result |-> result, arg |-> <<args>>]

ApplyConvertToBinary(input) ==
    /\ steps = 0
    /\ steps' = 1
    /\ last' = Applied("convert_to_binary", input, convert_to_binary(input))
    /\ UNCHANGED <<stores, history>>

ApplyGetSyncCommitteeSum(bits) ==
    /\ steps = 0
    /\ steps' = 1
    /\ last' = Applied("get_sync_committee_sum", bits,
                       get_sync_committee_sum(bits))
    /\ UNCHANGED <<stores, history>>

\* How a call of a function that returns bool ends: with its value, or in
\* a panic that returns nothing.
Returned(value) == <<value>>

Panicked == <<>>

\* An index out of bounds ends the call in a panic.
ApplyIsValidMerkleBranch(x) ==
    /\ steps = 0
    /\ steps' = 1
    /\ last' = Applied("is_valid_merkle_branch", x,
                   IF merkle_branch_panics(x.branch, x.depth) THEN Panicked
                   ELSE Returned(is_valid_merkle_branch(
                            x.leaf, x.branch, x.depth, x.index, x.root)))
    /\ UNCHANGED <<stores, history>>

ApplyVerifySignedHeader(x) ==
    /\ steps = 0
    /\ steps' = 1
    /\ last' = Applied("verify_signed_header", x,
                   verify_signed_header(x.sync_committee_bits_hex,
                                        x.sync_committee_signature,
                                        x.sync_committee_pubkeys,
                                        x.fork_version, x.header,
                                        x.validators_root))
    /\ UNCHANGED <<stores, history>>

\* compute_domain as test_compute_domain and verify_signed_header call it:
\* fork_version is None (<<>>) or Some(version) (<<version>>).
DomainInputs ==
    {[domain_type |-> t, fork_version |-> f, genesis_validators_root |-> r] :
         t \in {DOMAIN_SYNC_COMMITTEE, <<5, 0, 0, 0>>},
         f \in {<<>>, <<(<<0, 0, 0, 0>>)>>, <<(<<0, 0, 0, 1>>)>>,
                <<(<<1, 0, 0, 0>>)>>, <<GENESIS_FORK_VERSION>>},
         r \in ValidatorsRoots \cup {ZeroRoot}}

ApplyComputeDomain(x) ==
    /\ steps = 0
    /\ steps' = 1
    /\ last' = Applied("compute_domain", x,
                       compute_domain(x.domain_type, x.fork_version,
                                      x.genesis_validators_root))
    /\ UNCHANGED <<stores, history>>

ComputeDomain == \E x \in DomainInputs : ApplyComputeDomain(x)

\* The loop of verify_signed_header that gathers the participants' keys,
\* on the decoded bits of a submitted bitfield and a committee's keys.
ApplyParticipantPubkeys(x) ==
    /\ steps = 0
    /\ steps' = 1
    /\ last' = Applied("participant_pubkeys", x,
                       participant_pubkeys(
                           convert_to_binary(x.sync_committee_bits_hex),
                           x.sync_committee_pubkeys))
    /\ UNCHANGED <<stores, history>>

ParticipantPubkeys ==
    \E x \in {[sync_committee_bits_hex |-> y.sync_committee_bits_hex,
                sync_committee_pubkeys |-> y.sync_committee_pubkeys] :
                   y \in SignedHeaderInputs} : ApplyParticipantPubkeys(x)

ConvertToBinary == \E input \in BitsHex : ApplyConvertToBinary(input)

GetSyncCommitteeSum == \E bits \in BitVectors : ApplyGetSyncCommitteeSum(bits)

IsValidMerkleBranch == \E x \in MerkleInputs : ApplyIsValidMerkleBranch(x)

VerifySignedHeader ==
    \E x \in SignedHeaderInputs : ApplyVerifySignedHeader(x)

HelperNext ==
    \/ ConvertToBinary
    \/ GetSyncCommitteeSum
    \/ IsValidMerkleBranch
    \/ VerifySignedHeader
    \/ ComputeDomain
    \/ ParticipantPubkeys

HelperSpec == Init /\ [][HelperNext]_vars

----------------------------------------------------------------------------
(* Properties *)

Succeeded(op) == last.op = op /\ last.result = "Ok"

\* C1: after a successful initial_sync(c), whatever was stored before,
\* FinalizedHeaders[c.header.body_root] is c.header and
\* FinalizedHeadersBySlot[c.header.slot] is c.header.body_root.
C1_InitialSyncStoresCheckpoint ==
    Succeeded("initial_sync") =>
        LET c == last.arg[1]
        IN  /\ StorageContains(FinalizedHeaders, c.header.body_root)
            /\ FinalizedHeaders[c.header.body_root] = c.header
            /\ StorageContains(FinalizedHeadersBySlot, c.header.slot)
            /\ FinalizedHeadersBySlot[c.header.slot] = c.header.body_root

\* An initial_sync has succeeded on a store that already held another header.
C1_Witness ==
    /\ Succeeded("initial_sync")
    /\ Cardinality(DOMAIN FinalizedHeaders) = 2
    /\ steps >= 2

\* C2: a successful import_finalized_header(s) leaves no entry at s in
\* UnverifiedHeaders, and the finalized_header of the entry that was staged
\* at s is in FinalizedHeaders under its body_root, which is what
\* FinalizedHeadersBySlot[s] holds.
C2_ImportMovesStagedHeader ==
    [][(last'.op = "import_finalized_header" /\ last'.result = "Ok") =>
          LET s == last'.arg[1]
          IN  /\ StorageContains(UnverifiedHeaders, s)
              /\ ~StorageContains(UnverifiedHeaders', s)
              /\ LET header == UnverifiedHeaders[s].finalized_header
                 IN  /\ StorageContains(FinalizedHeaders', header.body_root)
                     /\ FinalizedHeaders'[header.body_root] = header
                     /\ StorageContains(FinalizedHeadersBySlot', s)
                     /\ FinalizedHeadersBySlot'[s] = header.body_root]_vars

\* An import has succeeded: its slot is finalized and no longer staged.
C2_Witness ==
    /\ Succeeded("import_finalized_header")
    /\ last.arg[1] \in DOMAIN FinalizedHeadersBySlot
    /\ last.arg[1] \notin DOMAIN UnverifiedHeaders

\* C3 as stated: every header in FinalizedHeaders had its finality branch and
\* a sync-committee signature verified before it was written.
C3_EveryHeaderFullyVerified ==
    \A r \in DOMAIN FinalizedHeaders :
        /\ r \in DOMAIN headerProof
        /\ headerProof[r].finality_verified
        /\ headerProof[r].signature_verified

\* C3, amended: every header in FinalizedHeaders was written either by
\* initial_sync as the checkpoint header (no finality branch, no signature)
\* or by import_finalized_header after its finality branch was verified at
\* staging and the sync-committee signature at import.
C3_HeaderIsCheckpointOrFullyVerified ==
    \A r \in DOMAIN FinalizedHeaders :
        /\ r \in DOMAIN headerProof
        /\ \/ headerProof[r].op = "initial_sync"
           \/ /\ headerProof[r].op = "import_finalized_header"
              /\ headerProof[r].finality_verified
              /\ headerProof[r].signature_verified

\* Both kinds are stored: a checkpoint header and an imported one.
C3_Witness ==
    /\ \E r \in DOMAIN FinalizedHeaders :
           headerProof[r].op = "initial_sync"
    /\ \E r \in DOMAIN FinalizedHeaders :
           /\ headerProof[r].op = "import_finalized_header"
           /\ headerProof[r].finality_verified
           /\ headerProof[r].signature_verified

\* C4: a call of any of the four extrinsics that returns an error leaves the
\* five stores as they were; a staged entry whose signature check fails
\* stays staged.
C4_ErrorLeavesStores ==
    [][last'.result # "Ok" => UNCHANGED stores]_vars

\* An import has failed on the signature and the entry is still staged.
C4_Witness ==
    /\ last.op = "import_finalized_header"
    /\ last.result \notin {"Ok", "BadOrigin", "UnverifiedHeaderNotFound",
                            "SyncCommitteeMissing"}
    /\ UnverifiedHeaders # EmptyMap

\* C5: for every key s of FinalizedHeadersBySlot, with r the value stored
\* there, FinalizedHeaders has an entry at r and its slot is s; also after
\* headers of equal body_root and different slots were stored.
C5_SlotIndexAgreesWithHeaders ==
    \A s \in DOMAIN FinalizedHeadersBySlot :
        LET r == FinalizedHeadersBySlot[s]
        IN  /\ StorageContains(FinalizedHeaders, r)
            /\ FinalizedHeaders[r].slot = s

\* C6: ChainGenesis is written once; after the first successful initial_sync
\* no operation, a second initial_sync included, changes validators_root.
C6_GenesisWrittenOnce ==
    [][ChainGenesis # <<>> =>
          /\ ChainGenesis' # <<>>
          /\ ChainGenesis'[1].validators_root =
                 ChainGenesis[1].validators_root]_vars

\* C7: once slot s is a key of FinalizedHeadersBySlot, no operation changes
\* FinalizedHeadersBySlot[s] or the header FinalizedHeaders stores for it.
C7_FinalizedIsTerminalPerSlot ==
    [][\A s \in DOMAIN FinalizedHeadersBySlot :
          LET r == FinalizedHeadersBySlot[s]
          IN  /\ StorageContains(FinalizedHeadersBySlot', s)
              /\ FinalizedHeadersBySlot'[s] = r
              /\ StorageContains(FinalizedHeaders, r) =>
                     /\ StorageContains(FinalizedHeaders', r)
                     /\ FinalizedHeaders'[r] = FinalizedHeaders[r]]_vars

\* C8: every committee in SyncCommittees was accepted by a Merkle proof
\* against the state root of a trusted header: the initial_sync checkpoint,
\* or a header that was in FinalizedHeaders when the committee was stored.
C8_CommitteeProvedAgainstTrustedHeader ==
    \A p \in DOMAIN SyncCommittees :
        /\ p \in DOMAIN committeeProof
        /\ committeeProof[p].verified
        /\ committeeProof[p].trusted

\* C9, for the committees sync_committee_period_update stores: the committee
\* at period p passed its Merkle proof against the state root of a header h
\* with compute_period(h.slot) = p - 1.
C9_CommitteeProvedOnePeriodAhead ==
    \A p \in DOMAIN SyncCommittees :
        (p \in DOMAIN committeeProof
            /\ committeeProof[p].op = "sync_committee_period_update") =>
            /\ committeeProof[p].verified
            /\ compute_current_sync_period(committeeProof[p].header_slot)
                   = p - 1

\* C10: before a successful initial_sync no committee is stored by
\* sync_committee_period_update and no header is finalized by
\* import_finalized_header.
C10_NothingBeforeInitialSync ==
    ~synced =>
        /\ \A p \in DOMAIN SyncCommittees :
               committeeProof[p].op # "sync_committee_period_update"
        /\ \A r \in DOMAIN FinalizedHeaders :
               headerProof[r].op # "import_finalized_header"

\* C11: every entry UnverifiedHeaders[s] holds a finalized_header of slot s,
\* and that header was proved by a finality Merkle branch (depth 6, index 41)
\* against the state_root of the entry's own attested_header before the
\* entry was inserted.
C11_StagedEntryProvedAtItsSlot ==
    \A s \in DOMAIN UnverifiedHeaders :
        /\ UnverifiedHeaders[s].finalized_header.slot = s
        /\ s \in DOMAIN stagedProof
        /\ stagedProof[s].finality_verified

\* Two entries are staged, one of them by an attested header of a later slot.
C11_Witness ==
    /\ Cardinality(DOMAIN UnverifiedHeaders) = 2
    /\ \E s \in DOMAIN UnverifiedHeaders :
           UnverifiedHeaders[s].attested_header.slot > s

\* C12: importing a staged entry whose period has no stored sync committee
\* returns SyncCommitteeMissing and leaves every store (the entry included)
\* as it was; so an import that succeeds finds SyncCommittees[period]
\* already written by an earlier committed operation.
C12_ImportNeedsStoredCommittee ==
    [][\A s \in Slots :
         (/\ last'.op = "import_finalized_header"
          /\ s \in DOMAIN UnverifiedHeaders
          /\ import_finalized_header(Signed(1), s)) =>
             LET period == UnverifiedHeaders[s].period
             IN  /\ period \notin DOMAIN SyncCommittees =>
                        /\ last'.result = "SyncCommitteeMissing"
                        /\ UNCHANGED stores
                        /\ s \in DOMAIN UnverifiedHeaders'
                 /\ last'.result = "Ok" =>
                        /\ period \in DOMAIN SyncCommittees
                        /\ period \in DOMAIN committeeProof
                        /\ committeeProof[period].op \in
                               {"initial_sync", "sync_committee_period_update"}]_vars

C12_Witness ==
    /\ last.op = "import_finalized_header"
    /\ last.result = "SyncCommitteeMissing"
    /\ \E s \in DOMAIN UnverifiedHeaders :
           UnverifiedHeaders[s].period \notin DOMAIN SyncCommittees
    /\ SyncCommittees # EmptyMap

C14_MerkleBranchNeverAborts ==
    last.op = "is_valid_merkle_branch" =>
        LET x == last.arg[1]
        IN  /\ last.result # Panicked
            /\ x.depth = 0 => last.result = Returned(x.leaf = x.root)
            /\ Len(x.branch) < x.depth => last.result = Returned(FALSE)

C17_ConvertToBinaryBigEndianUnpadded ==
    last.op = "convert_to_binary" =>
        LET input == last.arg[1]
            bits == last.result
        IN  /\ input = <<10, 33>> => bits = <<1, 0, 1, 0, 1, 0, 0, 0, 0, 1>>
            /\ input = <<253>> => bits = <<1, 1, 1, 1, 1, 1, 0, 1>>
            /\ Len(input) = 1 =>
                   LET digits == CHOOSE n \in 0..8 :
                                     /\ input[1] < Pow2(n)
                                     /\ n > 0 => input[1] >= Pow2(n - 1)
                   IN  /\ Len(bits) = digits
                       /\ \A j \in 1..digits :
                              bits[j] = (input[1] \div Pow2(digits - j)) % 2

\* C18: verify_signed_header fails with InsufficientSyncCommitteeParticipants
\* exactly when fewer than MIN_SYNC_COMMITTEE_PARTICIPANTS (= 1) bits of the
\* submitted bytes are set, whatever the signature and the public keys are
\* (the count is checked before either is looked at); the count is
\* get_sync_committee_sum, the number of 1s: 5 for [0,1,0,1,1,0,1,0,1].
C18_InsufficientParticipantsIffSumBelowMinimum ==
    /\ last.op = "verify_signed_header" =>
           LET hex == last.arg[1].sync_committee_bits_hex
               set == {kj \in (1..Len(hex)) \X (0..7) :
                           (hex[kj[1]] \div Pow2(kj[2])) % 2 = 1}
           IN  last.result = "InsufficientSyncCommitteeParticipants" <=>
                   Cardinality(set) < 1
    /\ last.op = "get_sync_committee_sum" =>
           LET bits == last.arg[1]
           IN  /\ last.result = Cardinality({i \in 1..Len(bits) : bits[i] = 1})
               /\ bits = <<0, 1, 0, 1, 1, 0, 1, 0, 1>> => last.result = 5

\* A call with no bit set is refused for that reason although its signature
\* does not even decode and it has no public keys.
C18_Witness ==
    /\ last.op = "verify_signed_header"
    /\ last.result = "InsufficientSyncCommitteeParticipants"
    /\ last.arg[1].sync_committee_signature = InvalidSignature
    /\ last.arg[1].sync_committee_pubkeys = <<>>
    /\ last.arg[1].sync_committee_bits_hex = <<0, 0>>

\* C19: a call of initial_sync or sync_committee_period_update in which the
\* SSZ hash tree root of the submitted sync committee cannot be computed
\* returns the error InvalidHash.
C19_SszFailureIsInvalidHash ==
    [][/\ \A c \in InitialSyncs :
              (/\ initial_sync(Signed(1), c)
               /\ ~hash_tree_root_sync_committee(c.current_sync_committee).ok)
              => last'.result = "InvalidHash"
       /\ \A u \in SyncCommitteePeriodUpdates :
              (/\ sync_committee_period_update(Signed(1), u)
               /\ ~hash_tree_root_sync_committee(u.next_sync_committee).ok)
              => last'.result = "InvalidHash"]_vars

\* C20: a successful sync_committee_period_update(u), with
\* cp = u.attested_header.slot / 32 / 256, leaves u.next_sync_committee at
\* SyncCommittees[cp + 1] and the entry {attested_header, finalized_header,
\* sync_aggregate, fork_version of u, period cp} at
\* UnverifiedHeaders[u.finalized_header.slot], and changes no other key of
\* either map.
C20_PeriodUpdateWritesTwoKeys ==
    [][(/\ last'.op = "sync_committee_period_update"
        /\ last'.result = "Ok"
        /\ steps' # steps) =>
           LET u == last'.arg[1]
               cp == (u.attested_header.slot \div 32) \div 256
               slot == u.finalized_header.slot
           IN  /\ DOMAIN SyncCommittees' = DOMAIN SyncCommittees \cup {cp + 1}
               /\ SyncCommittees'[cp + 1] = u.next_sync_committee
               /\ \A k \in DOMAIN SyncCommittees \ {cp + 1} :
                      SyncCommittees'[k] = SyncCommittees[k]
               /\ DOMAIN UnverifiedHeaders' = DOMAIN UnverifiedHeaders \cup {slot}
               /\ UnverifiedHeaders'[slot] =
                      [attested_header |-> u.attested_header,
                       finalized_header |-> u.finalized_header,
                       sync_aggregate |-> u.sync_aggregate,
                       fork_version |-> u.fork_version,
                       period |-> cp]
               /\ \A k \in DOMAIN UnverifiedHeaders \ {slot} :
                      UnverifiedHeaders'[k] = UnverifiedHeaders[k]]_vars

\* A period update attested in period 1 has written SyncCommittees[2] and
\* staged its header beside a committee and a staged header that were there.
C20_Witness ==
    /\ Succeeded("sync_committee_period_update")
    /\ last.arg[1].attested_header.slot = 8192
    /\ SyncCommittees[2] = last.arg[1].next_sync_committee
    /\ Cardinality(DOMAIN SyncCommittees) = 2
    /\ Cardinality(DOMAIN UnverifiedHeaders) = 2
    /\ UnverifiedHeaders[last.arg[1].finalized_header.slot].period = 1

\* C21: an import_finalized_header(s) that writes anything has succeeded, and
\* the signature of the staged entry is a valid aggregate signature, by
\* members of SyncCommittees[entry.period], over the signing root of the
\* entry's attested_header under the domain of the entry's fork_version and
\* ChainGenesis.validators_root; it has written the entry's finalized_header
\* to FinalizedHeaders and FinalizedHeadersBySlot and removed the entry.
C21_ImportWritesOnlyAfterSignatureCheck ==
    [][(/\ last'.op = "import_finalized_header"
        /\ steps' # steps
        /\ stores' # stores) =>
           /\ last'.result = "Ok"
           /\ last'.arg[1] \in DOMAIN UnverifiedHeaders
           /\ LET s == last'.arg[1]
                  entry == UnverifiedHeaders[s]
                  signature == entry.sync_aggregate.sync_committee_signature
                  committee == SyncCommittees_get(SyncCommittees, entry.period)
                  domain == <<-2>> \o DOMAIN_SYNC_COMMITTEE
                            \o hash_tree_root_fork_data(
                                   [current_version |-> entry.fork_version,
                                    genesis_validators_root |->
                                        ChainGenesis_get(ChainGenesis).validators_root]).root
                  signing_root ==
                      hash_tree_root_signing_data(
                          [object_root |->
                               hash_tree_root_beacon_header(entry.attested_header).root,
                           domain |-> domain]).root
                  header == entry.finalized_header
              IN  /\ signature.encoding = "valid"
                  /\ signature.message = signing_root
                  /\ signature.signers # {}
                  /\ signature.signers \subseteq
                         {committee.pubkeys[i] : i \in 1..Len(committee.pubkeys)}
                  /\ FinalizedHeaders' =
                         StorageInsert(FinalizedHeaders, header.body_root, header)
                  /\ FinalizedHeadersBySlot' =
                         StorageInsert(FinalizedHeadersBySlot, header.slot,
                                       header.body_root)
                  /\ DOMAIN UnverifiedHeaders' = DOMAIN UnverifiedHeaders \ {s}
                  /\ UNCHANGED <<SyncCommittees, ChainGenesis>>]_vars

\* An import of slot 8191 has succeeded on a chain with a genesis and a
\* stored committee, and the signature check is on record for its header.
C21_Witness ==
    /\ Succeeded("import_finalized_header")
    /\ last.arg[1] = 8191
    /\ 8191 \in DOMAIN FinalizedHeadersBySlot
    /\ \E r \in DOMAIN headerProof :
           /\ headerProof[r].op = "import_finalized_header"
           /\ headerProof[r].signature_verified
    /\ SyncCommittees # EmptyMap
    /\ ChainGenesis # <<>>

\* C22: a slot becomes a key of FinalizedHeadersBySlot either as the slot of
\* the checkpoint header of a successful initial_sync or by a successful
\* import_finalized_header of that slot, taken where UnverifiedHeaders holds
\* an entry staged at it; sync_committee_period_update and
\* finalized_header_update write neither FinalizedHeaders nor
\* FinalizedHeadersBySlot.
C22_FinalizedOnlyThroughStaged ==
    [][/\ \A s \in DOMAIN FinalizedHeadersBySlot' \ DOMAIN FinalizedHeadersBySlot :
              /\ last'.result = "Ok"
              /\ \/ /\ last'.op = "initial_sync"
                    /\ last'.arg[1].header.slot = s
                 \/ /\ last'.op = "import_finalized_header"
                    /\ last'.arg[1] = s
                    /\ s \in DOMAIN UnverifiedHeaders
                    /\ s \in DOMAIN stagedProof
       /\ (/\ steps' # steps
           /\ last'.op \in {"sync_committee_period_update",
                            "finalized_header_update"}) =>
              UNCHANGED <<FinalizedHeaders, FinalizedHeadersBySlot>>]_vars

\* A slot other than the checkpoint's has been finalized by an import.
C22_Witness ==
    /\ Succeeded("import_finalized_header")
    /\ last.arg[1] \in DOMAIN FinalizedHeadersBySlot
    /\ \E r \in DOMAIN FinalizedHeaders :
           /\ headerProof[r].op = "initial_sync"
           /\ FinalizedHeaders[r].slot # last.arg[1]
    /\ \A r \in DOMAIN FinalizedHeaders :
           headerProof[r].op = "initial_sync" =>
               FinalizedHeaders[r].slot # last.arg[1]

\* C23: a successful finalized_header_update(u) changes
\* UnverifiedHeaders[u.finalized_header.slot] and nothing else in the five
\* stores; and the call fails with InvalidHeaderMerkleProof whenever the
\* finality branch does not lead from the root of u.finalized_header to
\* u.attested_header.state_root at depth 6, index 41.
C23_FinalizedHeaderUpdateFrameAndProof ==
    [][\A u \in FinalizedHeaderUpdates :
         finalized_header_update(Signed(1), u) =>
             LET slot == u.finalized_header.slot
                 leaf == hash_tree_root_beacon_header(u.finalized_header).root
                 proves ==
                     /\ Len(u.finality_branch) >= 6
                     /\ RootFrom(leaf, u.finality_branch, 41, 6) =
                            u.attested_header.state_root
             IN  /\ last'.result = "Ok" =>
                        /\ UNCHANGED <<SyncCommittees, ChainGenesis,
                                       FinalizedHeaders, FinalizedHeadersBySlot>>
                        /\ DOMAIN UnverifiedHeaders' =
                               DOMAIN UnverifiedHeaders \cup {slot}
                        /\ \A k \in DOMAIN UnverifiedHeaders \ {slot} :
                               UnverifiedHeaders'[k] = UnverifiedHeaders[k]
                 /\ ~proves => last'.result = "InvalidHeaderMerkleProof"]_vars

\* C24: an accepted update (of either kind) whose finalized_header.slot
\* already has a staged entry replaces that entry by its own, and a
\* successful import stores the finalized header of the entry staged at the
\* time of the import, and no other header.
C24_LaterUpdateOverwritesStagedEntry ==
    [][/\ (/\ steps' # steps
           /\ last'.result = "Ok"
           /\ last'.op \in {"sync_committee_period_update",
                            "finalized_header_update"}
           /\ last'.arg[1].finalized_header.slot \in DOMAIN UnverifiedHeaders) =>
              LET u == last'.arg[1]
              IN  UnverifiedHeaders'[u.finalized_header.slot] =
                      [attested_header |-> u.attested_header,
                       finalized_header |-> u.finalized_header,
                       sync_aggregate |-> u.sync_aggregate,
                       fork_version |-> u.fork_version,
                       period |-> (u.attested_header.slot \div 32) \div 256]
       /\ (/\ steps' # steps
           /\ last'.result = "Ok"
           /\ last'.op = "import_finalized_header") =>
              LET header == UnverifiedHeaders[last'.arg[1]].finalized_header
              IN  /\ DOMAIN FinalizedHeaders' =
                         DOMAIN FinalizedHeaders \cup {header.body_root}
                  /\ FinalizedHeaders'[header.body_root] = header
                  /\ \A r \in DOMAIN FinalizedHeaders \ {header.body_root} :
                         FinalizedHeaders'[r] = FinalizedHeaders[r]]_vars

\* A period update attested at slot 8191 staged an entry of period 0 at the
\* slot that has now been imported, and period 0 never had a committee: the
\* entry imported is a later one, staged over it.
C24_Witness ==
    /\ Succeeded("import_finalized_header")
    /\ 0 \notin DOMAIN SyncCommittees
    /\ 1 \in DOMAIN committeeProof
    /\ committeeProof[1].op = "sync_committee_period_update"
    /\ committeeProof[1].header_slot = last.arg[1]
    /\ committeeProof[1].period_from_slot = 8191
    /\ last.arg[1] \in DOMAIN FinalizedHeadersBySlot

\* C25: stored entities are create-only: once SyncCommittees[p] holds a
\* committee or FinalizedHeaders[r] holds a header, no step replaces that
\* value by a different one.
C25_StoredEntitiesCreateOnly ==
    [][/\ \A p \in DOMAIN SyncCommittees :
              /\ p \in DOMAIN SyncCommittees'
              /\ SyncCommittees'[p] = SyncCommittees[p]
       /\ \A r \in DOMAIN FinalizedHeaders :
              /\ r \in DOMAIN FinalizedHeaders'
              /\ FinalizedHeaders'[r] = FinalizedHeaders[r]]_vars

\* C26: an import_finalized_header that reaches the BLS step (an entry is
\* staged, its committee is stored, at least one participation bit is set)
\* fails with InvalidSignature or InvalidSignaturePoint when the signature
\* does not decode, with InvalidAggregatePublicKeys when the selected keys
\* decode and cannot be aggregated (none is selected), and with
\* SignatureVerificationFailed when the aggregate of the selected keys did
\* not sign the signing root; each time every store, the staged entry
\* included, is left as it was.
C26_BlsFailuresAndTheirErrors ==
    [][\A s \in Slots :
         (/\ last'.op = "import_finalized_header"
          /\ s \in DOMAIN UnverifiedHeaders
          /\ UnverifiedHeaders[s].period \in DOMAIN SyncCommittees
          /\ import_finalized_header(Signed(1), s)) =>
             LET entry == UnverifiedHeaders[s]
                 hex == entry.sync_aggregate.sync_committee_bits
                 signature == entry.sync_aggregate.sync_committee_signature
                 pubkeys == SyncCommittees[entry.period].pubkeys
                 flag(i) == (hex[(i \div 8) + 1] \div Pow2(i % 8)) % 2
                 flags == {i \in 0..(8 * Len(hex) - 1) : flag(i) = 1}
                 selected == {pubkeys[i + 1] :
                                  i \in {j \in flags : j < Len(pubkeys)}}
                 domain == <<-2>> \o DOMAIN_SYNC_COMMITTEE
                           \o hash_tree_root_fork_data(
                                  [current_version |-> entry.fork_version,
                                   genesis_validators_root |->
                                       ChainGenesis_get(ChainGenesis).validators_root]).root
                 signing_root ==
                     hash_tree_root_signing_data(
                         [object_root |->
                              hash_tree_root_beacon_header(entry.attested_header).root,
                          domain |-> domain]).root
                 decodes == signature.encoding = "valid"
                 keys_decode == ZeroKey \notin selected
             IN  flags # {} =>
                   /\ ~decodes =>
                          /\ last'.result \in {"InvalidSignature",
                                               "InvalidSignaturePoint"}
                          /\ UNCHANGED stores
                   /\ (decodes /\ keys_decode /\ selected = {}) =>
                          /\ last'.result = "InvalidAggregatePublicKeys"
                          /\ UNCHANGED stores
                   /\ (/\ decodes /\ keys_decode /\ selected # {}
                       /\ ~(/\ signature.signers = selected
                            /\ signature.message = signing_root)) =>
                          /\ last'.result = "SignatureVerificationFailed"
                          /\ UNCHANGED stores]_vars

\* An import has failed because no key was selected for aggregation, and
\* the entry is still staged.
C26_Witness ==
    /\ last.op = "import_finalized_header"
    /\ last.result = "InvalidAggregatePublicKeys"
    /\ \E s \in DOMAIN UnverifiedHeaders :
           /\ UnverifiedHeaders[s].period \in DOMAIN SyncCommittees
           /\ UnverifiedHeaders[s].sync_aggregate.sync_committee_bits =
                  <<Pow2(CommitteeSize)>>

C28_NoForkVersionMeansZeroVersion ==
    (last.op = "compute_domain" /\ last.arg[1].fork_version = <<>>) =>
        last.result =
            compute_domain(last.arg[1].domain_type, <<(<<0, 0, 0, 0>>)>>,
                           last.arg[1].genesis_validators_root)

\* C29: for a committee of full size and any bitfield, the public keys that
\* verify_signed_header gathers for aggregation are as many as there are
\* participation flags set (the count compared with the minimum), and they
\* are the committee's keys at the flagged indices, in index order.
C29_AggregatedKeysAreTheFlaggedMembers ==
    (/\ last.op = "participant_pubkeys"
     /\ Len(last.arg[1].sync_committee_pubkeys) = CommitteeSize) =>
        LET hex == last.arg[1].sync_committee_bits_hex
            pubkeys == last.arg[1].sync_committee_pubkeys
            flags == {i \in 0..(8 * Len(hex) - 1) :
                          (hex[(i \div 8) + 1] \div Pow2(i % 8)) % 2 = 1}
            nth(k) == CHOOSE i \in flags :
                          Cardinality({j \in flags : j < i}) = k - 1
        IN  /\ Len(last.result) = Cardinality(flags)
            /\ \A k \in 1..Len(last.result) :
                   last.result[k] = pubkeys[nth(k) + 1]

\* C30: the field sync_committee_period of a period update has no effect:
\* the call made with an update and the call made, in the same state, with
\* the update that differs from it in that field only return the same
\* result and leave the same five stores.
C30_PeriodFieldHasNoEffect ==
    [][(steps' # steps /\ last'.op = "sync_committee_period_update") =>
         /\ last'.result = "Ok" =>
                \A out \in {process_sync_committee_period_update(World,
                                [last'.arg[1] EXCEPT
                                     !.sync_committee_period = @ + 1])} :
                    /\ out.result = "Ok"
                    /\ out.world.SyncCommittees = SyncCommittees'
                    /\ out.world.UnverifiedHeaders = UnverifiedHeaders'
                    /\ out.world.FinalizedHeaders = FinalizedHeaders'
                    /\ out.world.FinalizedHeadersBySlot = FinalizedHeadersBySlot'
                    /\ out.world.ChainGenesis = ChainGenesis'
         /\ last'.result \notin {"Ok", "BadOrigin"} =>
                \A u \in BadSyncCommitteePeriodUpdates :
                    sync_committee_period_update(Signed(1), u) =>
                        \A out \in {process_sync_committee_period_update(World,
                                        [u EXCEPT !.sync_committee_period = @ + 1])} :
                            /\ out.result = last'.result
                            /\ UNCHANGED stores]_vars

\* An update labelled with period 7 and attested in period 0 has been
\* accepted: the committee is stored at period 1 and the entry staged with
\* period 0.
C30_Witness ==
    /\ Succeeded("sync_committee_period_update")
    /\ last.arg[1].sync_committee_period = 7
    /\ 1 \in DOMAIN SyncCommittees
    /\ SyncCommittees[1] = last.arg[1].next_sync_committee
    /\ 7 \notin DOMAIN SyncCommittees
    /\ UnverifiedHeaders[last.arg[1].finalized_header.slot].period = 0

====
